---- MODULE Spec2Model ----
(***************************************************************************)
(* Model of src/src/comotion/dash.py: the two chunked entry points          *)
(* read_and_upload_file_to_dash and upload_dataframe, the helpers they      *)
(* call (upload_csv_to_dash, create_gzipped_csv_stream_from_df) and the     *)
(* process-wide logger upload_dataframe attaches file handlers to.          *)
(*                                                                         *)
(* One process makes a sequence of calls.  A call is modelled by its entry  *)
(* (the code before the chunk loop), one step per loop iteration (the whole *)
(* body: transform, serialize, POST or write, record) and its return.       *)
(* A cell value is a pair <<type, n>>: <<"int", n>> a number,               *)
(* <<"str", n>> a string of the caller, <<"ts", t>> a timestamp formatted   *)
(* with %Y-%m-%d %H:%M:%S.%f.                                               *)
(***************************************************************************)
EXTENDS Integers, Sequences, FiniteSets, TLC

\* ------------------------------------------------------------------ bounds
MaxRows == 3
MaxChunkSize == 2
MaxCalls == 2
MaxClock == 2
TicksPerMinute == 2

\* -------------------------------------------------------------- constants
None == "None"
SnapshotColumn == "snapshot_timestamp"
LoadedColumn == "loaded"
DryRunDir == "out"
Table == "tbl"
LoggerName == "comotion.dash"
StatusCodes == {200, 304, 404, 500}

\* ------------------------------------------------------------ data frames
\* A DataFrame: its ordered column names and its rows, each row a function
\* from column name to cell value.
SeqToSet(s) == {s[k] : k \in 1..Len(s)}

MkRow(k, hasSnap) ==
    IF hasSnap THEN [c \in {"id", SnapshotColumn} |->
                        IF c = "id" THEN <<"int", k>> ELSE <<"str", 0>>]
               ELSE [c \in {"id"} |-> <<"int", k>>]

MkDataset(n, hasSnap) ==
    [cols |-> IF hasSnap THEN <<"id", SnapshotColumn>> ELSE <<"id">>,
     rows |-> [k \in 1..n |-> MkRow(k, hasSnap)]]

Datasets == {MkDataset(n, h) : n \in 0..MaxRows, h \in BOOLEAN}

Min(a, b) == IF a < b THEN a ELSE b

\* df[a:b] with Python's 0-based half-open bounds, clipped to the frame.
Slice(df, a, b) ==
    [cols |-> df.cols,
     rows |-> SubSeq(df.rows, a + 1, Min(b, Len(df.rows)))]

\* df[col] = value: overwrite the column when it exists, append it otherwise.
SetItem(df, col, value) ==
    [cols |-> IF col \in SeqToSet(df.cols) THEN df.cols ELSE Append(df.cols, col),
     rows |-> [k \in 1..Len(df.rows) |->
                 [c \in (DOMAIN df.rows[k]) \cup {col} |->
                     IF c = col THEN value ELSE df.rows[k][c]]]]

\* df.astype(dtype=dtypes): a NEW frame whose named columns are cast.
Cast(v, type) == <<type, v[2]>>

AstypeFrame(df, dtypes) ==
    [cols |-> df.cols,
     rows |-> [k \in 1..Len(df.rows) |->
                 [c \in DOMAIN df.rows[k] |->
                     IF \E p \in dtypes : p[1] = c
                     THEN Cast(df.rows[k][c], (CHOOSE p \in dtypes : p[1] = c)[2])
                     ELSE df.rows[k][c]]]]

\* ---------------------------------------------------------- serialization
\* csv.QUOTE_NONNUMERIC: numbers are written bare, everything else quoted.
Field(v) == IF v[1] = "int" THEN <<"bare", v>> ELSE <<"quoted", v>>

create_gzipped_csv_stream_from_df(df) ==
    [encoding |-> "gzip",
     header |-> df.cols,
     lines |-> [k \in 1..Len(df.rows) |->
                  [j \in 1..Len(df.cols) |-> Field(df.rows[k][df.cols[j]])]]]

\* ------------------------------------------------------------ HTTP upload
\* A raise_for_status that lets server errors through.
raise_for_status_4xx_only(status) == 400 <= status /\ status < 500

\* Line 52, requests.Response.raise_for_status: HTTPError on a client error
\* (4xx) or a server error (5xx) status, nothing on any other status.
raise_for_status(status) == 400 <= status /\ status < 600

\* The POST (lines 45-50) with its answer: what the server received, the status
\* and the body it answered with.
Request(chunk, payload, status, body) ==
    [chunk |-> chunk, payload |-> payload, status |-> status, body |-> body]

\* An upload that sends the request a second time.
upload_twice(sent, request) == Append(Append(sent, request), request)

\* Lines 45-50: exactly one requests.request("POST", ...) per call.
upload_csv_to_dash(sent, request) == Append(sent, request)

\* ------------------------------------------------------------- pd.read_csv
\* pd.read_csv(file, chunksize=...) returns a lazy reader.  Each step yields the
\* next chunksize rows; a source holding the header alone yields one empty
\* frame on the first step and nothing afterwards.
OpenReader(file) == [cols |-> file.cols, rows |-> file.rows, first |-> TRUE]

ReaderHasNext(r) == Len(r.rows) > 0 \/ r.first

ReaderChunk(r, chunksize) ==
    [cols |-> r.cols, rows |-> SubSeq(r.rows, 1, Min(chunksize, Len(r.rows)))]

ReaderAdvance(r, chunksize) ==
    [cols |-> r.cols,
     rows |-> SubSeq(r.rows, Min(chunksize, Len(r.rows)) + 1, Len(r.rows)),
     first |-> FALSE]

\* ------------------------------------------------------------ the callback
\* modify_lambda: None, or a callable that adds a column to the frame it is
\* given (in place) and returns a different frame (the id column alone).
ModifyLambdas == {None, "add_loaded"}

InPlaceEffect(lam, df) == SetItem(df, LoadedColumn, <<"int", 1>>)

ReturnValue(lam, df) ==
    [cols |-> <<"id">>,
     rows |-> [k \in 1..Len(df.rows) |-> [c \in {"id"} |-> df.rows[k]["id"]]]]

\* A loop that rebinds the chunk to what the callback returns.
TransformedChunkRebound(lam, chunk) ==
    IF lam # None THEN ReturnValue(lam, chunk) ELSE chunk

\* Lines 156-159: the frame that is serialized after the optional callback.
TransformedChunk(lam, chunk) ==
    IF lam # None THEN InPlaceEffect(lam, chunk) ELSE chunk

\* ------------------------------------------------------------------- state
VARIABLES
    now,            \* the wall clock, in ticks
    handlers,       \* handlers of logging.getLogger(__name__): their log files
    logs,           \* log file name -> the records appended to it
    pc,             \* "idle", "file_loop", "df_loop", "returned", "raised"
    fn,             \* the entry point of the current call
    args,           \* the arguments of the current call
    input,          \* the dataset as the caller passed it (never changed)
    heap,           \* the DataFrame objects of an upload_dataframe call;
                    \* heap[1] is the caller's own object
    dataframe,      \* the object the local name `dataframe` refers to
    snapshot_timestamp,
    file_reader,    \* the reader of a read_and_upload_file_to_dash call
    data_chunks,    \* the chunk list of an upload_dataframe call
    i,              \* the loop index
    responses,      \* the list read_and_upload_file_to_dash collects
    posts,          \* the POSTs this call issued, in order
    written,        \* the chunk files this call wrote, in order
    serialized,     \* the loop indices of the chunks this call serialized
    lambdaLog,      \* the applications of modify_lambda in this call
    ret             \* what the call returned

vars == <<now, handlers, logs, pc, fn, args, input, heap, dataframe,
          snapshot_timestamp, file_reader, data_chunks, i, responses, posts,
          written, serialized, lambdaLog, ret>>

process == <<now, handlers, logs>>

\* strftime("%Y-%m-%d %H:%M:%S.%f"): the timestamp to the tick, as a string cell.
FormatSnapshot(t) == <<"ts", t>>

\* Line 242: dash_table + "_" + strftime("%Y%m%d%H%M") + ".log": the timestamp
\* truncated to the minute.
LogFileName(table, t) == <<table, t \div TicksPerMinute, "log">>

LogFiles == {LogFileName(Table, t) : t \in 0..MaxClock}

NoReturn == [kind |-> "nothing", value |-> <<>>]
EmptyReader == [cols |-> <<>>, rows |-> <<>>, first |-> FALSE]

\* dtypes: None, the empty dict, or {"id": "str"} (a set of <<column, type>>).
DtypeArgs == {[isNone |-> TRUE, map |-> {}],
              [isNone |-> FALSE, map |-> {}],
              [isNone |-> FALSE, map |-> {<<"id", "str">>}]}

\* Python truthiness of the dtypes argument (line 256).
Truthy(dtypes) == ~dtypes.isNone /\ dtypes.map # {}

NoArgs ==
    [chunksize |-> 1, path_to_output_for_dryrun |-> None, modify_lambda |-> None,
     dtypes |-> [isNone |-> TRUE, map |-> {}], include_snapshot |-> FALSE]

Init ==
    /\ now = 0
    /\ handlers = <<>>
    /\ logs = [f \in LogFiles |-> <<>>]
    /\ pc = "idle"
    /\ fn = "none"
    /\ args = NoArgs
    /\ input = MkDataset(0, FALSE)
    /\ heap = <<>>
    /\ dataframe = 0
    /\ snapshot_timestamp = 0
    /\ file_reader = EmptyReader
    /\ data_chunks = <<>>
    /\ i = 0
    /\ responses = <<>>
    /\ posts = <<>>
    /\ written = <<>>
    /\ serialized = <<>>
    /\ lambdaLog = <<>>
    /\ ret = NoReturn

\* No call is in progress: the caller may make the next one.
CanCall == pc = "idle"

\* The body the server answers the POST of a chunk with: it names the
\* upload_dataframe call (0 for read_and_upload_file_to_dash) and the chunk.
Body(call, chunk) == [call |-> call, chunk |-> chunk]

\* A branch that uploads whatever the dry-run argument is.
IsUploadAlways(path) == TRUE

\* Line 161 and line 269: `path_to_output_for_dryrun is None`.
IsUpload(path) == path = None

\* A file name built from the index after the current one.
DryRunPathShifted(dir, table, index) == <<dir, table, index + 1, "csv.gz">>

\* Lines 172-176 and line 281: <dir>/<table>.<i>.csv.gz
DryRunPath(dir, table, index) == <<dir, table, index, "csv.gz">>

\* Line 152: the first chunk index of read_and_upload_file_to_dash.
FirstFileIndex == 1
\* ------------------------------------------------------------ the logger
\* The record the formatter of lines 244-247 writes for logger.info(message).
LogRecord(message) == [name |-> LoggerName, level |-> "INFO", message |-> message]

\* Logger.info: every handler attached to the logger emits the record, in the
\* order the handlers were added.
RECURSIVE CallHandlers(_, _, _)
CallHandlers(hs, files, record) ==
    IF hs = <<>> THEN files
    ELSE CallHandlers(Tail(hs),
                      [files EXCEPT ![Head(hs)] = Append(@, record)], record)

\* Lines 249-253: getLogger(__name__) is the one logger of the module; the new
\* FileHandler is added to the handlers it already has.
AddHandler(hs, log_file) == Append(hs, log_file)

\* ---------------------------------------------- read_and_upload_file_to_dash
\* A list that grows at the front.
RecordResponseFront(list, text) == <<text>> \o list

\* Line 170: responses.append(response.text)
RecordResponse(list, text) == Append(list, text)

\* Lines 146-153.
CallFile ==
    /\ CanCall
    /\ \E file \in Datasets, chunksize \in 1..MaxChunkSize,
          dry \in {None, DryRunDir}, lam \in ModifyLambdas :
        /\ args' = [NoArgs EXCEPT !.chunksize = chunksize,
                                  !.path_to_output_for_dryrun = dry,
                                  !.modify_lambda = lam]
        /\ input' = file
        /\ file_reader' = OpenReader(file)
    /\ fn' = "file"
    /\ pc' = "file_loop"
    /\ i' = FirstFileIndex
    /\ responses' = <<>>
    /\ heap' = <<>>
    /\ dataframe' = 0
    /\ snapshot_timestamp' = 0
    /\ data_chunks' = <<>>
    /\ posts' = <<>>
    /\ written' = <<>>
    /\ serialized' = <<>>
    /\ lambdaLog' = <<>>
    /\ ret' = NoReturn
    /\ UNCHANGED process

\* Lines 154-181: one iteration of the loop over the reader.
FileIter ==
    /\ pc = "file_loop"
    /\ ReaderHasNext(file_reader)
    /\ LET file_df == ReaderChunk(file_reader, args.chunksize)
           csv_stream == create_gzipped_csv_stream_from_df(
                             TransformedChunk(args.modify_lambda, file_df))
       IN  /\ file_reader' = ReaderAdvance(file_reader, args.chunksize)
           /\ lambdaLog' = IF args.modify_lambda # None
                           THEN Append(lambdaLog,
                                    [chunk |-> i,
                                     outputs |-> Len(posts) + Len(written),
                                     serialized |-> Len(serialized)])
                           ELSE lambdaLog
           /\ serialized' = Append(serialized, i)
           /\ IF IsUpload(args.path_to_output_for_dryrun)
              THEN \E status \in StatusCodes :
                     /\ posts' = upload_csv_to_dash(posts,
                                    Request(i, csv_stream, status, Body(0, i)))
                     /\ IF raise_for_status(status)
                        THEN /\ pc' = "raised"
                             /\ UNCHANGED <<responses, i>>
                        ELSE /\ responses' = RecordResponse(responses, Body(0, i))
                             /\ i' = i + 1
                             /\ pc' = pc
                     /\ UNCHANGED written
              ELSE /\ written' = Append(written,
                          [path |-> DryRunPath(args.path_to_output_for_dryrun,
                                               Table, i),
                           data |-> csv_stream])
                   /\ i' = i + 1
                   /\ UNCHANGED <<posts, responses, pc>>
    /\ UNCHANGED <<process, fn, args, input, heap, dataframe,
                   snapshot_timestamp, data_chunks, ret>>

\* Line 183: the reader is exhausted.
FileReturn ==
    /\ pc = "file_loop"
    /\ ~ReaderHasNext(file_reader)
    /\ pc' = "returned"
    /\ ret' = [kind |-> "list", value |-> responses]
    /\ UNCHANGED <<process, fn, args, input, heap, dataframe,
                   snapshot_timestamp, file_reader, data_chunks, i, responses,
                   posts, written, serialized, lambdaLog>>
\* ------------------------------------------------------------ upload_dataframe
\* A cast done in place on the object it is given.
AstypeInPlace(objects, ref, dtypes) ==
    [heap |-> [objects EXCEPT ![ref] = AstypeFrame(@, dtypes.map)],
     ref |-> ref]

\* Line 257: dataframe = dataframe.astype(dtype=dtypes).  astype builds a new
\* object and the local name is rebound to it; the caller's object is untouched.
Astype(objects, ref, dtypes) ==
    [heap |-> Append(objects, AstypeFrame(objects[ref], dtypes.map)),
     ref |-> Len(objects) + 1]

\* A snapshot column formatted anew for every row, at a later tick each time.
AddSnapshotPerRow(df, ts) ==
    [cols |-> SetItem(df, SnapshotColumn, FormatSnapshot(ts)).cols,
     rows |-> [k \in 1..Len(df.rows) |->
                 [c \in (DOMAIN df.rows[k]) \cup {SnapshotColumn} |->
                     IF c = SnapshotColumn THEN FormatSnapshot(ts + k)
                     ELSE df.rows[k][c]]]]

\* Line 261: dataframe['snapshot_timestamp'] = snapshot_timestamp.strftime(...)
\* changes the object the local name refers to, in place.
AddSnapshot(df, ts) == SetItem(df, SnapshotColumn, FormatSnapshot(ts))

\* Line 263: [dataframe[i:i+chunksize] for i in range(0, shape[0], chunksize)]
RangeLen(n, step) == (n + step - 1) \div step

DataChunks(df, chunksize) ==
    [k \in 1..RangeLen(Len(df.rows), chunksize) |->
        Slice(df, (k - 1) * chunksize, (k - 1) * chunksize + chunksize)]

\* Lines 240-263.
CallDf ==
    /\ CanCall
    /\ Len(handlers) < MaxCalls
    /\ \E df \in Datasets, chunksize \in 1..MaxChunkSize,
          dry \in {None, DryRunDir}, dtypes \in DtypeArgs,
          include_snapshot \in BOOLEAN, ts \in now..Min(now + 1, MaxClock) :
        LET cast == IF Truthy(dtypes) THEN Astype(<<df>>, 1, dtypes)
                    ELSE [heap |-> <<df>>, ref |-> 1]
            objects == IF include_snapshot
                       THEN [cast.heap EXCEPT ![cast.ref] = AddSnapshot(@, ts)]
                       ELSE cast.heap
        IN  /\ args' = [NoArgs EXCEPT !.chunksize = chunksize,
                                      !.path_to_output_for_dryrun = dry,
                                      !.dtypes = dtypes,
                                      !.include_snapshot = include_snapshot]
            /\ input' = df
            /\ now' = ts
            /\ snapshot_timestamp' = ts
            /\ handlers' = AddHandler(handlers, LogFileName(Table, ts))
            /\ heap' = objects
            /\ dataframe' = cast.ref
            /\ data_chunks' = DataChunks(objects[cast.ref], chunksize)
    /\ fn' = "df"
    /\ pc' = "df_loop"
    /\ i' = 0
    /\ file_reader' = EmptyReader
    /\ responses' = <<>>
    /\ posts' = <<>>
    /\ written' = <<>>
    /\ serialized' = <<>>
    /\ lambdaLog' = <<>>
    /\ ret' = NoReturn
    /\ UNCHANGED logs

\* Lines 265-282: one iteration of the loop over enumerate(data_chunks).
DfIter ==
    /\ pc = "df_loop"
    /\ i < Len(data_chunks)
    /\ LET chunk == data_chunks[i + 1]
           csv_stream == create_gzipped_csv_stream_from_df(chunk)
           text == Body(Len(handlers), i)
       IN  /\ serialized' = Append(serialized, i)
           /\ IF IsUpload(args.path_to_output_for_dryrun)
              THEN \E status \in StatusCodes :
                     /\ posts' = upload_csv_to_dash(posts,
                                    Request(i, csv_stream, status, text))
                     /\ IF raise_for_status(status)
                        THEN /\ pc' = "raised"
                             /\ UNCHANGED <<logs, i>>
                        ELSE /\ logs' = CallHandlers(handlers, logs,
                                                     LogRecord(text))
                             /\ i' = i + 1
                             /\ pc' = pc
                     /\ UNCHANGED written
              ELSE /\ written' = Append(written,
                          [path |-> DryRunPath(args.path_to_output_for_dryrun,
                                               Table, i),
                           data |-> csv_stream])
                   /\ i' = i + 1
                   /\ UNCHANGED <<posts, logs, pc>>
    /\ UNCHANGED <<now, handlers, fn, args, input, heap, dataframe,
                   snapshot_timestamp, file_reader, data_chunks, responses,
                   lambdaLog, ret>>

\* Line 284: the chunk list is exhausted; nothing is returned.
DfReturn ==
    /\ pc = "df_loop"
    /\ i >= Len(data_chunks)
    /\ pc' = "returned"
    /\ ret' = [kind |-> "none", value |-> <<>>]
    /\ UNCHANGED <<process, fn, args, input, heap, dataframe,
                   snapshot_timestamp, file_reader, data_chunks, i, responses,
                   posts, written, serialized, lambdaLog>>

\* The call is over (line 183, line 284, or the HTTPError of line 52 leaving the
\* function): its locals and its result are dropped; the logger, its handlers,
\* the log files and the clock stay.
Discard ==
    /\ pc \in {"returned", "raised"}
    /\ pc' = "idle"
    /\ fn' = "none"
    /\ args' = NoArgs
    /\ input' = MkDataset(0, FALSE)
    /\ heap' = <<>>
    /\ dataframe' = 0
    /\ snapshot_timestamp' = 0
    /\ file_reader' = EmptyReader
    /\ data_chunks' = <<>>
    /\ i' = 0
    /\ responses' = <<>>
    /\ posts' = <<>>
    /\ written' = <<>>
    /\ serialized' = <<>>
    /\ lambdaLog' = <<>>
    /\ ret' = NoReturn
    /\ UNCHANGED process

Next ==
    \/ CallFile \/ FileIter \/ FileReturn
    \/ CallDf \/ DfIter \/ DfReturn
    \/ Discard

Spec == Init /\ [][Next]_vars
\* ================================================================== claims
InCall == fn # "none"
IsDryRun == args.path_to_output_for_dryrun # None
NRows == Len(input.rows)

\* The payloads this call has produced, in order, whichever way they went out.
Outputs ==
    IF IsDryRun THEN [j \in 1..Len(written) |-> written[j].data]
    ELSE [j \in 1..Len(posts) |-> posts[j].payload]

\* The ids of the rows of a payload (id is the first column of every dataset).
RowIdsOf(payload) == [k \in 1..Len(payload.lines) |-> payload.lines[k][1][2][2]]

RECURSIVE Flatten(_)
Flatten(ss) == IF Len(ss) = 0 THEN <<>> ELSE Head(ss) \o Flatten(Tail(ss))

OutputIds == Flatten([j \in 1..Len(Outputs) |-> RowIdsOf(Outputs[j])])

\* k = ceil(n / c), stated without division.
IsCeil(k, n, c) == k * c >= n /\ (k = 0 \/ (k - 1) * c < n)

\* The number of chunks a complete pass makes: ceil(N/C), except that the
\* reader of read_and_upload_file_to_dash yields one empty chunk for N = 0.
IsChunkCount(k) ==
    IF NRows = 0 /\ fn = "file" THEN k = 1 ELSE IsCeil(k, NRows, args.chunksize)

ErrorStatus(status) == status \in 400..599
SuccessStatus(status) == status \in 200..299

\* The index the code gives the j-th chunk of a call.
IndexOf(j) == IF fn = "file" THEN j ELSE j - 1

\* ------------------------------------------------------------------- C1
\* C1 (as stated): whenever the upload of a chunk gets a non-2xx response the
\* call raises at that point, so a non-2xx POST is always the last POST of the
\* call and the call is in its raised state.
C1_Original ==
    \A j \in 1..Len(posts) :
        ~SuccessStatus(posts[j].status) => (j = Len(posts) /\ pc = "raised")

\* C1 (amended): whenever the upload of chunk k gets a 4xx or 5xx response the
\* call raises at that point: that POST is the last one (no retry, no later
\* chunk serialized, uploaded or written), and the chunks before k are still
\* there, each uploaded once, in order.
C1_RaiseHaltsLoop ==
    /\ \A j \in 1..Len(posts) :
          ErrorStatus(posts[j].status) => (j = Len(posts) /\ pc = "raised")
    /\ pc = "raised" =>
          /\ Len(posts) >= 1
          /\ ErrorStatus(posts[Len(posts)].status)
          /\ Len(serialized) = Len(posts)
          /\ written = <<>>
          /\ \A j \in 1..Len(posts) :
                /\ posts[j].chunk = IndexOf(j)
                /\ serialized[j] = IndexOf(j)
                /\ j < Len(posts) => ~ErrorStatus(posts[j].status)

C1_Witness ==
    /\ pc = "raised"
    /\ Len(posts) = 2
    /\ NRows = 3
    /\ args.chunksize = 1

\* ------------------------------------------------------------------- C2
\* C2 (as stated): a complete pass of either entry point processes exactly
\* ceil(N/C) chunks, each of at most C rows, whose rows in processing order are
\* the original rows in the original order.
C2_Original ==
    pc = "returned" =>
        /\ IsCeil(Len(serialized), NRows, args.chunksize)
        /\ \A j \in 1..Len(Outputs) : Len(Outputs[j].lines) <= args.chunksize
        /\ OutputIds = [k \in 1..NRows |-> k]

\* C2 (what the code does): every chunk has at most C rows and the rows of the
\* chunks, in processing order, are the original rows in the original order,
\* without overlap or gap; a complete pass has processed all N rows in
\* ceil(N/C) chunks, except that read_and_upload_file_to_dash processes one
\* empty chunk when N = 0.
C2_Chunking ==
    InCall =>
        /\ \A j \in 1..Len(Outputs) : Len(Outputs[j].lines) <= args.chunksize
        /\ OutputIds = [k \in 1..Len(OutputIds) |-> k]
        /\ Len(OutputIds) <= NRows
        /\ pc = "returned" =>
              /\ Len(OutputIds) = NRows
              /\ Len(serialized) = Len(Outputs)
              /\ IsChunkCount(Len(Outputs))

\* ------------------------------------------------------------------- C3
\* C3: a call given a dry-run directory never issues a POST, a call given none
\* never writes a chunk file, and at most one of the two kinds is non-empty.
C3_DryRunExclusive ==
    /\ IsDryRun => posts = <<>>
    /\ ~IsDryRun => written = <<>>
    /\ posts = <<>> \/ written = <<>>

C3_Witness ==
    /\ pc = "returned"
    /\ IsDryRun
    /\ Len(written) = 2

\* ------------------------------------------------------------------- C4
\* C4: read_and_upload_file_to_dash returns the response bodies in chunk
\* order, one per chunk, entry j the body answered for the j-th chunk; the
\* empty list in dry-run mode; nothing at all when an upload raised.
C4_ReturnedList ==
    fn = "file" =>
        /\ pc = "returned" =>
              /\ ret.kind = "list"
              /\ IF IsDryRun THEN ret.value = <<>>
                 ELSE /\ Len(ret.value) = Len(posts)
                      /\ IsChunkCount(Len(ret.value))
                      /\ \A j \in 1..Len(posts) :
                            /\ posts[j].chunk = j
                            /\ ret.value[j] = posts[j].body
        /\ pc = "raised" => ret = NoReturn
        /\ pc = "file_loop" => ret = NoReturn

C4_Witness ==
    /\ fn = "file"
    /\ pc = "returned"
    /\ ~IsDryRun
    /\ Len(ret.value) = 2

\* ------------------------------------------------------------------- C5
\* C5 (as stated): the POST for chunk j+1 is issued only after the POST for
\* chunk j returned a 2xx response.
C5_Original ==
    \A j \in 1..Len(posts) : j < Len(posts) => SuccessStatus(posts[j].status)

\* C5 (amended): in a non-dry-run call exactly one POST is issued per chunk, in
\* chunk order; the POST for chunk j+1 is issued only after the POST for chunk
\* j returned a status that is not 4xx or 5xx; a call that completes has
\* issued exactly as many POSTs as there are chunks.
C5_OnePostPerChunk ==
    (InCall /\ ~IsDryRun) =>
        /\ \A j \in 1..Len(posts) :
              /\ posts[j].chunk = IndexOf(j)
              /\ j < Len(posts) => ~ErrorStatus(posts[j].status)
        /\ Len(posts) = Len(serialized)
        /\ pc = "returned" => IsChunkCount(Len(posts))

C5_Witness ==
    /\ pc = "returned"
    /\ ~IsDryRun
    /\ Len(posts) = 3

\* ------------------------------------------------------------------- C6
\* C6: in dry-run mode the j-th chunk in row order goes to the j-th index,
\* indices 1..K for read_and_upload_file_to_dash and 0..K-1 for
\* upload_dataframe, each file written once.
C6_DryRunIndices ==
    (InCall /\ IsDryRun) =>
        /\ \A j \in 1..Len(written) :
              /\ written[j].path =
                    <<DryRunDir, Table,
                      IF fn = "file" THEN j ELSE j - 1, "csv.gz">>
              /\ \A k \in 1..Len(written[j].data.lines) :
                    RowIdsOf(written[j].data)[k] = (j - 1) * args.chunksize + k
        /\ pc = "returned" => IsChunkCount(Len(written))

C6_Witness ==
    /\ pc = "returned"
    /\ IsDryRun
    /\ fn = "df"
    /\ Len(written) = 3
\* ------------------------------------------------------------------- C7
\* The columns upload_dataframe is expected to serialize.
HasSnapshotColumn(cols) == \E p \in 1..Len(cols) : cols[p] = SnapshotColumn

SnapshotPosition(cols) == CHOOSE p \in 1..Len(cols) : cols[p] = SnapshotColumn

C7_ExpectedCols ==
    IF args.include_snapshot /\ ~HasSnapshotColumn(input.cols)
    THEN input.cols \o <<SnapshotColumn>>
    ELSE input.cols

C8_LineAsRead(r) ==
    [c \in 1..Len(input.cols) |-> Field(input.rows[r][input.cols[c]])]

\* C8: a supplied callback is applied exactly once to every chunk, in chunk
\* order, before the chunk is serialized and after the previous chunk's upload
\* or write; its return value is ignored and the payload is the chunk as
\* mutated in place; without a callback the chunk is serialized as read.
C8_Callback ==
    fn = "file" =>
        IF args.modify_lambda # None
        THEN /\ Len(lambdaLog) = Len(serialized)
             /\ \A j \in 1..Len(lambdaLog) :
                   lambdaLog[j] =
                       [chunk |-> j, outputs |-> j - 1, serialized |-> j - 1]
             /\ \A j \in 1..Len(Outputs) :
                   /\ Outputs[j].header = input.cols \o <<LoadedColumn>>
                   /\ \A k \in 1..Len(Outputs[j].lines) :
                         Outputs[j].lines[k] =
                             C8_LineAsRead((j - 1) * args.chunksize + k)
                                 \o << <<"bare", <<"int", 1>>>> >>
        ELSE /\ lambdaLog = <<>>
             /\ \A j \in 1..Len(Outputs) :
                   /\ Outputs[j].header = input.cols
                   /\ \A k \in 1..Len(Outputs[j].lines) :
                         Outputs[j].lines[k] =
                             C8_LineAsRead((j - 1) * args.chunksize + k)

C8_Witness ==
    /\ fn = "file"
    /\ pc = "returned"
    /\ args.modify_lambda # None
    /\ Len(lambdaLog) = 2
    /\ Len(Outputs) = 2

\* ------------------------------------------------------------------- C9
\* The positions in a log file of the records of one upload_dataframe call.
C9_RecordsOf(f, call) ==
    {n \in 1..Len(logs[f]) : logs[f][n].message.call = call}

\* C9 (as stated): over any sequence of upload_dataframe calls the body of each
\* uploaded chunk is written exactly once, in chunk order, to the log file the
\* call opened, and to no log file an earlier call opened.
C9_Original ==
    \A call \in 1..Len(handlers) :
        /\ \A m, n \in C9_RecordsOf(handlers[call], call) :
              m < n => logs[handlers[call]][m].message.chunk
                           < logs[handlers[call]][n].message.chunk
        /\ \A earlier \in 1..(call - 1) :
              handlers[earlier] # handlers[call] =>
                  C9_RecordsOf(handlers[earlier], call) = {}
        /\ (call = Len(handlers) /\ fn = "df") =>
              \A j \in 1..Len(posts) :
                  ~ErrorStatus(posts[j].status) =>
                      \E n \in C9_RecordsOf(handlers[call], call) :
                          logs[handlers[call]][n].message = posts[j].body

\* ------------------------------------------------------------------ C10
\* The caller's dataset with the snapshot column set to the call's timestamp.
C10_WithSnapshot ==
    [cols |-> IF HasSnapshotColumn(input.cols) THEN input.cols
              ELSE input.cols \o <<SnapshotColumn>>,
     rows |-> [k \in 1..Len(input.rows) |->
                 [c \in SeqToSet(input.cols) \cup {SnapshotColumn} |->
                     IF c = SnapshotColumn THEN <<"ts", snapshot_timestamp>>
                     ELSE input.rows[k][c]]]]

====
